---- MODULE Spec2Model ----
(***************************************************************************)
(* The profile editor of aleongit/angular_reactive-forms: the reactive     *)
(* form model (FormControl / FormGroup / FormArray tree), the operations   *)
(* of ProfileEditorComponent and its recursive validation-error collector  *)
(* getFormValidationErrors.                                                *)
(*                                                                         *)
(* Encoding of JavaScript values:                                          *)
(*   - a control name (a string) is the tuple of its '.'-separated         *)
(*     segments: "city" is <<"city">>, "a.b" is <<"a", "b">>; this is what *)
(*     AbstractControl.get computes with key.split('.');                   *)
(*   - an object is the sequence of its own properties in Object.keys      *)
(*     order: FormGroup.controls is a sequence of [key, control],          *)
(*     ValidationErrors a sequence of [key, value];                        *)
(*   - a nullable value is a record with a field null.                     *)
(***************************************************************************)
EXTENDS Integers, Sequences, FiniteSets, TLC

VARIABLES
    form,      \* the FormGroup the component holds (profileForm)
    op,        \* the operation that produced this state
    returned,  \* outcome of that operation: nothing, a returned value, or a throw
    origin,    \* history: for each returned record, the child indices visited to emit it
    console,   \* what that operation wrote to the console
    addAliasCalls  \* history: the number of addAlias calls so far

vars == <<form, op, returned, origin, console, addAliasCalls>>

(***************************************************************************)
(* Bounds of the model.                                                    *)
(***************************************************************************)
\* controls below the root of a tree passed to the collector
MaxControls == 3
\* controls the aliases FormArray may hold
MaxAliases == 3

(***************************************************************************)
(* The form model.                                                         *)
(***************************************************************************)
Null == [null |-> TRUE]

\* a ValidationErrors object with the given own properties
Errors(entries) == [null |-> FALSE, entries |-> entries]

FormControl(errors) ==
    [kind |-> "FormControl", errors |-> errors, controls |-> <<>>]

FormGroup(errors, controls) ==
    [kind |-> "FormGroup", errors |-> errors, controls |-> controls]

\* Object.keys(o): the own property names of o, in order
ObjectKeys(o) == [i \in 1..Len(o) |-> o[i].key]

\* o.hasOwnProperty(name)
HasOwnProperty(o, name) == \E i \in 1..Len(o) : o[i].key = name

\* o[name], for a name o has
Property(o, name) == o[CHOOSE i \in 1..Len(o) : o[i].key = name]

\* AbstractControl._find(name) on a nullable control: the child registered
\* under exactly that name in a FormGroup, the child at that index in a
\* FormArray, null in a FormControl; null && ... is null.
find(c, name) ==
    IF c.null THEN Null
    ELSE IF c.control.kind \in {"FormGroup", "FormArray"}
              /\ HasOwnProperty(c.control.controls, <<name>>)
         THEN [null |-> FALSE, control |-> Property(c.control.controls, <<name>>).control]
         ELSE Null

\* path.reduce((control, name) => control && control._find(name), this)
RECURSIVE reduce(_, _, _)
reduce(path, i, c) ==
    IF i > Len(path) THEN c ELSE reduce(path, i + 1, find(c, path[i]))

\* AbstractControl.get(path) with a string path: the path is split on '.'
\* and followed from this control.
get(group, key) ==
    reduce(key, 1, [null |-> FALSE, control |-> group])

(***************************************************************************)
(* getFormValidationErrors (the recursive version).                        *)
(* An activation is [threw, result, origin, log, visits, depth]: whether a  *)
(* TypeError is propagating, the local array result, for each of its       *)
(* records the child indices that were being visited when it was pushed    *)
(* (history only), the console.log calls made so far, and, as history      *)
(* again, the callback invocations so far (the group walked and the index  *)
(* of the key) and the greatest number of activations that were on the     *)
(* call stack together, this one included.                                 *)
(***************************************************************************)
NewResult ==
    [threw |-> FALSE, result |-> <<>>, origin |-> <<>>, log |-> <<>>,
     visits |-> <<>>, depth |-> 1]

Max(a, b) == IF a >= b THEN a ELSE b

\* pushErrors with result.unshift(...) for result.push(...): each record goes
\* to the front of the array
pushErrorsUnshift(result, key, controlErrors) ==
    IF controlErrors.null THEN result
    ELSE [n \in 1..Len(controlErrors.entries) |->
             [control |-> key,
              error   |-> ObjectKeys(controlErrors.entries)[Len(controlErrors.entries) + 1 - n],
              value   |-> controlErrors.entries[Len(controlErrors.entries) + 1 - n].value]]
         \o result

\* lines 71-79: if (controlErrors) one record per own key of controlErrors,
\* in Object.keys order; an object, even an empty one, is truthy, null is not
pushErrors(result, key, controlErrors) ==
    IF controlErrors.null THEN result
    ELSE result \o [n \in 1..Len(controlErrors.entries) |->
                       [control |-> key,
                        error   |-> ObjectKeys(controlErrors.entries)[n],
                        value   |-> controlErrors.entries[n].value]]

RECURSIVE getFormValidationErrors(_)
RECURSIVE forEach(_, _, _)

\* visit with the records of a nested group qualified by the group's key
\* ("address.city" for "city")
visitQualified(frame, group, i) ==
    LET key          == ObjectKeys(group.controls)[i]
        formProperty == get(group, key)
        isGroup      == ~formProperty.null /\ formProperty.control.kind = "FormGroup"
        sub          == IF isGroup THEN getFormValidationErrors(formProperty.control)
                        ELSE NewResult
        spread       == [frame EXCEPT
                            !.result = @ \o [n \in 1..Len(sub.result) |->
                                               [sub.result[n] EXCEPT !.control = key \o @]],
                            !.origin = @ \o [n \in 1..Len(sub.origin) |-> <<i>> \o sub.origin[n]],
                            !.log    = @ \o sub.log,
                            !.visits = @ \o <<[group |-> group, i |-> i]>> \o sub.visits,
                            !.depth  = IF isGroup THEN Max(@, 1 + sub.depth) ELSE @]
        pushed       == pushErrors(spread.result, key, formProperty.control.errors)
    IN  IF sub.threw
        THEN [spread EXCEPT !.threw = TRUE, !.result = frame.result,
                            !.origin = frame.origin]
        ELSE IF formProperty.null
        THEN [spread EXCEPT !.threw = TRUE]
        ELSE [spread EXCEPT
                 !.result = pushed,
                 !.origin = @ \o [n \in 1..(Len(pushed) - Len(spread.result)) |-> <<i>>]]

\* lines 66-79: the callback of the outer forEach, for the i-th key
visit(frame, group, i) ==
    LET key          == ObjectKeys(group.controls)[i]
        formProperty == get(group, key)
        isGroup      == ~formProperty.null /\ formProperty.control.kind = "FormGroup"
        sub          == IF isGroup THEN getFormValidationErrors(formProperty.control)
                        ELSE NewResult
        spread       == [frame EXCEPT
                            !.result = @ \o sub.result,
                            !.origin = @ \o [n \in 1..Len(sub.origin) |-> <<i>> \o sub.origin[n]],
                            !.log    = @ \o sub.log,
                            !.visits = @ \o <<[group |-> group, i |-> i]>> \o sub.visits,
                            !.depth  = IF isGroup THEN Max(@, 1 + sub.depth) ELSE @]
        pushed       == pushErrors(spread.result, key, formProperty.control.errors)
    IN  IF sub.threw
        THEN [spread EXCEPT !.threw = TRUE, !.result = frame.result,
                            !.origin = frame.origin]
        ELSE IF formProperty.null
        THEN [spread EXCEPT !.threw = TRUE]
        ELSE [spread EXCEPT
                 !.result = pushed,
                 !.origin = @ \o [n \in 1..(Len(pushed) - Len(spread.result)) |-> <<i>>]]

\* Object.keys(form.controls).forEach(...): the keys in order, from the i-th;
\* a throw in the callback ends the loop
forEach(frame, group, i) ==
    IF frame.threw \/ i > Len(group.controls) THEN frame
    ELSE forEach(visit(frame, group, i), group, i + 1)

\* a collector that also reports the failures of the group it is given
getFormValidationErrorsOwn(group) ==
    LET done == forEach(NewResult, group, 1)
        own  == pushErrors(done.result, <<"form">>, group.errors)
    IN  IF done.threw THEN done
        ELSE [done EXCEPT
                 !.result = own,
                 !.origin = @ \o [n \in 1..(Len(own) - Len(done.result)) |-> <<>>],
                 !.log = @ \o <<own>>]

\* lines 63-83
getFormValidationErrors(group) ==
    LET done == forEach(NewResult, group, 1)
    IN  IF done.threw THEN done
        ELSE [done EXCEPT !.log = @ \o <<done.result>>]

(***************************************************************************)
(* getFormValidationErrors as profile-editor.component.ts has it: not      *)
(* recursive, it logs the failures of the controls of this.profileForm     *)
(* and returns nothing.  A console.log call is the sequence of the pieces  *)
(* its first argument is concatenated from, then its second argument.      *)
(***************************************************************************)
\* lines 58-65 of profile-editor.component.ts: if (controlErrors != null) one
\* console.log per own key of controlErrors
logErrors(log, key, controlErrors) ==
    IF controlErrors.null THEN log
    ELSE log \o [n \in 1..Len(controlErrors.entries) |->
                    <<"Key control: ", key,
                      ", keyError: ", ObjectKeys(controlErrors.entries)[n],
                      ", err value: ", controlErrors.entries[n].value>>]

\* lines 56-66: Object.keys(this.profileForm.controls).forEach(...), from the
\* i-th key; reading errors of the null that get returns throws
RECURSIVE forEachFlat(_, _, _)
forEachFlat(frame, group, i) ==
    IF frame.threw \/ i > Len(group.controls) THEN frame
    ELSE LET key          == ObjectKeys(group.controls)[i]
             formProperty == get(group, key)
         IN  forEachFlat(IF formProperty.null
                         THEN [frame EXCEPT !.threw = TRUE]
                         ELSE [frame EXCEPT
                                  !.log = logErrors(@, key, formProperty.control.errors)],
                         group, i + 1)

\* lines 55-67 of profile-editor.component.ts
getFormValidationErrorsFlat(group) ==
    forEachFlat([threw |-> FALSE, log |-> <<>>], group, 1)

(***************************************************************************)
(* The trees the collector is applied to.  A form is declared as in the    *)
(* source, control after control in the order of the group literal: each   *)
(* new control goes at the end of the root group or at the end of a group  *)
(* that is still open (the last control of an open group).  This reaches   *)
(* every FormGroup with at most MaxControls controls below it, of any      *)
(* shape, whose controls are named "a", "b" or "a.b" (unique within their  *)
(* group); a control carries no errors (null), an empty errors object or   *)
(* two errors, a group no errors or one error of its own.                  *)
(***************************************************************************)
Names == {<<"a">>, <<"b">>, <<"a", "b">>}

Required  == [key |-> "required", value |-> "true"]
MinLength == [key |-> "minlength", value |-> "{requiredLength: 4, actualLength: 1}"]
Mismatch  == [key |-> "mismatch", value |-> "true"]

\* the failure mappings a FormControl may carry
ErrorMaps == {Null, Errors(<<>>), Errors(<<Required, MinLength>>)}

\* the failure mappings a FormGroup may carry (a cross-field check)
GroupErrorMaps == {Null, Errors(<<Mismatch>>)}

\* number of controls of a tree, its root included
RECURSIVE Size(_)
RECURSIVE SizeAll(_, _)
SizeAll(controls, i) ==
    IF i > Len(controls) THEN 0
    ELSE Size(controls[i].control) + SizeAll(controls, i + 1)
Size(c) == 1 + SizeAll(c.controls, 1)

\* the groups still open: the root (depth 0), its last control if that is a
\* FormGroup (depth 1), and so on
RECURSIVE OpenDepth(_)
OpenDepth(group) ==
    LET n == Len(group.controls)
    IN  IF n > 0 /\ group.controls[n].control.kind = "FormGroup"
        THEN 1 + OpenDepth(group.controls[n].control)
        ELSE 0

\* the open group at depth d
RECURSIVE OpenGroup(_, _)
OpenGroup(group, d) ==
    IF d = 0 THEN group
    ELSE OpenGroup(group.controls[Len(group.controls)].control, d - 1)

\* the form with one more property at the end of the open group at depth d
RECURSIVE Declare(_, _, _)
Declare(group, d, entry) ==
    IF d = 0 THEN [group EXCEPT !.controls = Append(@, entry)]
    ELSE [group EXCEPT !.controls[Len(group.controls)].control = Declare(@, d - 1, entry)]

Undefined == [kind |-> "undefined"]
Value(v)  == [kind |-> "value", value |-> v]
TypeError == [kind |-> "throw", error |-> "TypeError"]

Init ==
    /\ form \in {FormGroup(e, <<>>) : e \in GroupErrorMaps}
    /\ op = "group"
    /\ returned = Undefined
    /\ origin = <<>>
    /\ console = <<>>
    /\ addAliasCalls = 0

\* fb.group({...}) / new FormGroup({...}): the next property of the literal,
\* a control or a nested group, with the errors its validators give it
Group(d, key, control) ==
    /\ ~HasOwnProperty(OpenGroup(form, d).controls, key)
    /\ form' = Declare(form, d, [key |-> key, control |-> control])
    /\ op' = "group"
    /\ returned' = Undefined
    /\ origin' = <<>>
    /\ console' = <<>>
    /\ UNCHANGED addAliasCalls

\* the call with the errors of the form's controls cleared as they are read
GetFormValidationErrorsClearing ==
    LET done == getFormValidationErrors(form)
    IN  /\ op' = "getFormValidationErrors"
        /\ returned' = IF done.threw THEN TypeError ELSE Value(done.result)
        /\ origin' = IF done.threw THEN <<>> ELSE done.origin
        /\ console' = done.log
        /\ UNCHANGED addAliasCalls
        /\ form' = [form EXCEPT !.controls =
                      [i \in 1..Len(@) |-> [@[i] EXCEPT !.control.errors = Null]]]

\* the call with result kept in a field of the component, not a local of the
\* call: the records of a call are added to those of the call before
GetFormValidationErrorsKept ==
    LET done == getFormValidationErrors(form)
        kept == IF returned.kind = "value" THEN returned.value ELSE <<>>
    IN  /\ op' = "getFormValidationErrors"
        /\ returned' = IF done.threw THEN TypeError ELSE Value(kept \o done.result)
        /\ origin' = IF done.threw THEN <<>> ELSE done.origin
        /\ console' = done.log
        /\ UNCHANGED addAliasCalls
        /\ UNCHANGED form

\* a call of getFormValidationErrors(profileForm), as from the template
GetFormValidationErrors ==
    LET done == getFormValidationErrors(form)
    IN  /\ op' = "getFormValidationErrors"
        /\ returned' = IF done.threw THEN TypeError ELSE Value(done.result)
        /\ origin' = IF done.threw THEN <<>> ELSE done.origin
        /\ console' = done.log
        /\ UNCHANGED addAliasCalls
        /\ UNCHANGED form

\* the next property is a control
GroupControl ==
    /\ Size(form) <= MaxControls
    /\ \E d \in 0..OpenDepth(form), key \in Names, e \in ErrorMaps :
          Group(d, key, FormControl(e))

\* the next property is a nested group, still empty
GroupGroup ==
    /\ Size(form) <= MaxControls
    /\ \E d \in 0..OpenDepth(form), key \in Names, e \in GroupErrorMaps :
          Group(d, key, FormGroup(e, <<>>))

Next ==
    \/ GroupControl
    \/ GroupGroup
    \/ GetFormValidationErrors

Spec == Init /\ [][Next]_vars

(***************************************************************************)
(* The profile form: values, validators and the operations of              *)
(* ProfileEditorComponent.                                                 *)
(***************************************************************************)
\* Validators.required: {required: true} for an empty value, else null
required(value) ==
    IF value = "" THEN Errors(<<[key |-> "required", value |-> "true"]>>) ELSE Null

\* every control validated as a required one
runValidatorAll(validator, value) == required(value)

\* the errors a control's validator gives its current value
runValidator(validator, value) ==
    IF validator = "required" THEN required(value) ELSE Null

\* fb.control(value, validator) and the [value, validator] shorthand
control(value, validator) ==
    [kind |-> "FormControl", value |-> value, validator |-> validator,
     errors |-> runValidator(validator, value), controls |-> <<>>]

\* fb.group({...}): no validator of its own
group(controls) == [kind |-> "FormGroup", errors |-> Null, controls |-> controls]

\* fb.array([...]): no validator of its own; the i-th control has index i - 1
array(controls) == [kind |-> "FormArray", errors |-> Null, controls |-> controls]

Index(i) == <<ToString(i - 1)>>

profileForm ==
    group(<<
        [key |-> <<"firstName">>, control |-> control("", "required")],
        [key |-> <<"lastName">>,  control |-> control("", "required")],
        [key |-> <<"address">>,   control |-> group(<<
            [key |-> <<"street">>, control |-> control("", "none")],
            [key |-> <<"city">>,   control |-> control("", "required")],
            [key |-> <<"state">>,  control |-> control("", "none")],
            [key |-> <<"zip">>,    control |-> control("", "none")]>>)],
        [key |-> <<"aliases">>,   control |-> array(<<
            [key |-> Index(1), control |-> control("", "none")]>>)]
    >>)

\* get aliases()
aliases(f) == get(f, <<"aliases">>).control

\* AbstractControl.status: INVALID for a control with errors or with an
\* INVALID control below it, else VALID (the form has no asynchronous
\* validator and disables no control)
RECURSIVE status(_)
status(c) ==
    IF \/ ~c.errors.null
       \/ \E i \in 1..Len(c.controls) : status(c.controls[i].control) = "INVALID"
    THEN "INVALID" ELSE "VALID"

\* AbstractControl.valid and AbstractControl.invalid
valid(c)   == status(c) = "VALID"
invalid(c) == status(c) = "INVALID"

\* AbstractControl.value: a control's value, a group's or array's properties
RECURSIVE value(_)
value(c) ==
    IF c.kind = "FormControl" THEN [leaf |-> TRUE, value |-> c.value]
    ELSE [leaf |-> FALSE,
          props |-> [i \in 1..Len(c.controls) |->
                        [key |-> c.controls[i].key, value |-> value(c.controls[i].control)]]]

\* FormControl.setValue and updateValueAndValidity
setValue(c, v) == [c EXCEPT !.value = v, !.errors = runValidator(c.validator, v)]

\* patchValue with the controls the patch does not name emptied, as reset
\* does
RECURSIVE patchValueReset(_, _)
patchValueReset(c, patch) ==
    IF c.kind = "FormControl" THEN setValue(c, patch.value)
    ELSE [c EXCEPT !.controls =
            [i \in 1..Len(c.controls) |->
                IF HasOwnProperty(patch.props, c.controls[i].key)
                THEN [c.controls[i] EXCEPT !.control =
                         patchValueReset(@, Property(patch.props, c.controls[i].key).value)]
                ELSE [c.controls[i] EXCEPT !.control =
                         patchValueReset(@, [leaf |-> TRUE, value |-> "", props |-> <<>>])]]]

\* patchValue: for each property of the patch that names a control of the
\* group, patch that control; properties naming no control are skipped, and
\* controls the patch does not name are left alone
RECURSIVE patchValue(_, _)
patchValue(c, patch) ==
    IF c.kind = "FormControl" THEN setValue(c, patch.value)
    ELSE [c EXCEPT !.controls =
            [i \in 1..Len(c.controls) |->
                IF HasOwnProperty(patch.props, c.controls[i].key)
                THEN [c.controls[i] EXCEPT !.control =
                         patchValue(@, Property(patch.props, c.controls[i].key).value)]
                ELSE c.controls[i]]]

\* the object literal passed by updateProfile
ProfilePatch ==
    [leaf |-> FALSE, props |-> <<
        [key |-> <<"firstName">>, value |-> [leaf |-> TRUE, value |-> "Nancy"]],
        [key |-> <<"address">>, value |-> [leaf |-> FALSE, props |-> <<
            [key |-> <<"street">>, value |-> [leaf |-> TRUE, value |-> "123 Drew Street"]]>>]]
    >>]

\* <button type="submit" [disabled]="!profileForm.valid">
SubmitDisabled == ~valid(form)

\* what a user may type into an input
Inputs == {"", "x"}

\* the inputs of the template bound with formControlName: a path of keys
\* from the form to a FormControl
InputPaths ==
    {<<<<"firstName">>>>, <<<<"lastName">>>>,
     <<<<"address">>, <<"street">>>>, <<<<"address">>, <<"city">>>>,
     <<<<"address">>, <<"state">>>>, <<<<"address">>, <<"zip">>>>}

\* one input per control of aliases, bound by its index
AliasInputPaths ==
    {<<<<"aliases">>, Index(i)>> : i \in 1..Len(aliases(form).controls)}

\* the form after setValue(v) on the control bound to the input at a path
RECURSIVE setValueAt(_, _, _)
setValueAt(c, path, v) ==
    IF path = <<>> THEN setValue(c, v)
    ELSE [c EXCEPT !.controls =
            [i \in 1..Len(c.controls) |->
                IF c.controls[i].key = Head(path)
                THEN [c.controls[i] EXCEPT !.control = setValueAt(@, Tail(path), v)]
                ELSE c.controls[i]]]

InitProfile ==
    /\ form = profileForm
    /\ op = "constructor"
    /\ returned = Undefined
    /\ origin = <<>>
    /\ console = <<>>
    /\ addAliasCalls = 0

\* the user edits an input: the bound control takes the input's value and is
\* validated again
Input(path, v) ==
    /\ form' = setValueAt(form, path, v)
    /\ op' = "input"
    /\ returned' = Undefined
    /\ origin' = <<>>
    /\ console' = <<>>
    /\ UNCHANGED addAliasCalls

UpdateProfile ==
    /\ form' = patchValue(form, ProfilePatch)
    /\ op' = "updateProfile"
    /\ returned' = Undefined
    /\ origin' = <<>>
    /\ console' = <<>>
    /\ UNCHANGED addAliasCalls

\* this.aliases.insert(0, this.fb.control('')): the new control goes first
AddAliasInsert ==
    /\ Len(aliases(form).controls) < MaxAliases
    /\ form' = [form EXCEPT !.controls =
                  [i \in 1..Len(form.controls) |->
                      IF form.controls[i].key = <<"aliases">>
                      THEN [form.controls[i] EXCEPT !.control.controls =
                               [k \in 1..(Len(@) + 1) |->
                                   [key |-> Index(k),
                                    control |-> IF k = 1 THEN control("", "none")
                                                ELSE @[k - 1].control]]]
                      ELSE form.controls[i]]]
    /\ op' = "addAlias"
    /\ returned' = Undefined
    /\ origin' = <<>>
    /\ console' = <<>>
    /\ addAliasCalls' = addAliasCalls + 1

\* this.aliases.push(this.fb.control(''))
AddAlias ==
    /\ Len(aliases(form).controls) < MaxAliases
    /\ form' = [form EXCEPT !.controls =
                  [i \in 1..Len(form.controls) |->
                      IF form.controls[i].key = <<"aliases">>
                      THEN [form.controls[i] EXCEPT !.control.controls =
                               Append(@, [key |-> Index(Len(@) + 1),
                                          control |-> control("", "none")])]
                      ELSE form.controls[i]]]
    /\ op' = "addAlias"
    /\ returned' = Undefined
    /\ origin' = <<>>
    /\ console' = <<>>
    /\ addAliasCalls' = addAliasCalls + 1

\* (ngSubmit): the submit button is the way to submit and is disabled while
\* the form is not valid
OnSubmit ==
    /\ ~SubmitDisabled
    /\ op' = "onSubmit"
    /\ returned' = Undefined
    /\ origin' = <<>>
    /\ console' = <<value(form)>>
    /\ UNCHANGED addAliasCalls
    /\ UNCHANGED form

\* the user types into one of the inputs
Typing == \E path \in InputPaths \cup AliasInputPaths, v \in Inputs : Input(path, v)

NextProfile ==
    \/ Typing
    \/ UpdateProfile
    \/ AddAlias
    \/ OnSubmit
    \/ GetFormValidationErrors

SpecProfile == InitProfile /\ [][NextProfile]_vars

(***************************************************************************)
(* Forms with dynamic lists.  A form is declared as above, but a property  *)
(* may also be a FormArray, with or without a failure of its own; controls *)
(* are pushed to the array declared last while it is still open, and any   *)
(* of them may carry failures.  Properties are named "a" or "a.0".         *)
(***************************************************************************)
ListNames == {<<"a">>, <<"a", "0">>}

\* new FormArray([...]) with the errors its validators give it
FormArray(errors, controls) ==
    [kind |-> "FormArray", errors |-> errors, controls |-> controls]

\* the array still open: the last control of the innermost open group
OpenArray(f) ==
    LET g == OpenGroup(f, OpenDepth(f))
    IN  IF Len(g.controls) > 0 /\ g.controls[Len(g.controls)].control.kind = "FormArray"
        THEN [null |-> FALSE, control |-> g.controls[Len(g.controls)].control]
        ELSE Null

\* the next property is a control
ListControl ==
    /\ Size(form) <= MaxControls
    /\ \E d \in 0..OpenDepth(form), key \in ListNames, e \in ErrorMaps :
          Group(d, key, FormControl(e))

\* the next property is a nested group, still empty
ListGroup ==
    /\ Size(form) <= MaxControls
    /\ \E d \in 0..OpenDepth(form), key \in ListNames, e \in GroupErrorMaps :
          Group(d, key, FormGroup(e, <<>>))

\* the next property is an array, still empty
ListArray ==
    /\ Size(form) <= MaxControls
    /\ \E d \in 0..OpenDepth(form), key \in ListNames, e \in GroupErrorMaps :
          Group(d, key, FormArray(e, <<>>))

\* the form with one more control at the end of the array that is the last
\* control of the open group at depth d; the i-th control has index i - 1
RECURSIVE PushOpen(_, _, _)
PushOpen(g, d, c) ==
    LET n == Len(g.controls)
    IN  IF d = 0
        THEN [g EXCEPT !.controls[n].control.controls =
                 Append(@, [key |-> Index(Len(@) + 1), control |-> c])]
        ELSE [g EXCEPT !.controls[n].control = PushOpen(@, d - 1, c)]

\* FormArray.push(control) on the open array
Push ==
    /\ Size(form) <= MaxControls
    /\ ~OpenArray(form).null
    /\ \E e \in ErrorMaps :
          /\ form' = PushOpen(form, OpenDepth(form), FormControl(e))
          /\ op' = "push"
          /\ returned' = Undefined
          /\ origin' = <<>>
          /\ console' = <<>>
          /\ UNCHANGED addAliasCalls

NextList ==
    \/ ListControl
    \/ ListGroup
    \/ ListArray
    \/ Push
    \/ GetFormValidationErrors

SpecList == Init /\ [][NextList]_vars

(***************************************************************************)
(* Vocabulary of the properties.  These read the tree by position only     *)
(* (never through get), and the history variable origin.                   *)
(***************************************************************************)
IsCall   == op = "getFormValidationErrors"
Returned == IsCall /\ returned.kind = "value"

\* the property [key, control] reached from g by a non-empty path of child indices
RECURSIVE ChildAt(_, _)
ChildAt(g, q) ==
    IF Len(q) = 1 THEN g.controls[q[1]]
    ELSE ChildAt(g.controls[q[1]].control, Tail(q))

\* the paths of child indices of every control below g
RECURSIVE Paths(_)
Paths(g) ==
    UNION {{<<i>>} \cup {<<i>> \o q : q \in Paths(g.controls[i].control)}
           : i \in 1..Len(g.controls)}

\* the failure mapping of a control as a sequence of entries: none when null
Entries(errors) == IF errors.null THEN <<>> ELSE errors.entries

\* the records of the entries of the control at q, tagged with its own name
OwnFailures(g, q) ==
    LET child == ChildAt(g, q)
        es    == Entries(child.control.errors)
    IN  [n \in 1..Len(es) |->
            [control |-> child.key, error |-> es[n].key, value |-> es[n].value]]

\* the number of times each element occurs in a sequence
SeqToBag(seq) ==
    [r \in {seq[n] : n \in 1..Len(seq)} |->
        Cardinality({n \in 1..Len(seq) : seq[n] = r})]

\* the number of times each record is expected: once per entry per control
ExpectedBag(g) ==
    LET all == UNION {{<<q, n>> : n \in 1..Len(OwnFailures(g, q))} : q \in Paths(g)}
    IN  [r \in {OwnFailures(g, e[1])[e[2]] : e \in all} |->
            Cardinality({e \in all : OwnFailures(g, e[1])[e[2]] = r})]

\* the positions of the records pushed while the control at q was visited
\* for its own errors
Own(q) == {n \in 1..Len(origin) : origin[n] = q}

\* the positions of the records pushed anywhere in the visit of the control at q
Within(q) ==
    {n \in 1..Len(origin) :
        Len(origin[n]) >= Len(q) /\ SubSeq(origin[n], 1, Len(q)) = q}

\* q with its last index replaced by j
Sibling(q, j) == [q EXCEPT ![Len(q)] = j]

\* the elements of seq at the positions in set, in order
RECURSIVE Pick(_, _, _)
Pick(seq, set, n) ==
    IF n > Len(seq) THEN <<>>
    ELSE (IF n \in set THEN <<seq[n]>> ELSE <<>>) \o Pick(seq, set, n + 1)

\* the property the walk is at after following the child indices q from g:
\* its key, and the control object form.get(key) handed to the walk
RECURSIVE VisitedAt(_, _)
VisitedAt(g, q) ==
    LET key == g.controls[q[1]].key
    IN  IF Len(q) = 1 THEN [key |-> key, control |-> get(g, key).control]
        ELSE VisitedAt(get(g, key).control, Tail(q))

\* a tree with every null failure mapping replaced by an empty one
RECURSIVE NullsEmptied(_)
NullsEmptied(c) ==
    [c EXCEPT
        !.errors = IF @.null THEN Errors(<<>>) ELSE @,
        !.controls = [i \in 1..Len(@) |->
                         [@[i] EXCEPT !.control = NullsEmptied(@)]]]

\* no control of the tree, the root included, carries a failure
RECURSIVE AllValid(_)
AllValid(c) ==
    /\ Entries(c.errors) = <<>>
    /\ \A i \in 1..Len(c.controls) : AllValid(c.controls[i].control)

(***************************************************************************)
(* Properties of the collector, over the declared trees (Spec).            *)
(***************************************************************************)

\* C1: a call returns exactly one record per entry of the failure mapping of
\* every control and group at any depth below the given group: none is
\* missing and none is reported twice.
C1_Complete ==
    IsCall =>
        /\ returned.kind = "value"
        /\ SeqToBag(returned.value) = ExpectedBag(form)

C3_GroupOwnFailure ==
    IsCall =>
        \A q \in Paths(form) :
            (/\ ChildAt(form, q).control.kind = "FormGroup"
             /\ OwnFailures(form, q) # <<>>)
            => /\ returned.kind = "value"
               /\ Pick(returned.value, Own(q), 1) = OwnFailures(form, q)
               /\ \A n \in Own(q) :
                     /\ \A m \in Within(q) \ Own(q) : m < n
                     /\ \A j \in (q[Len(q)] + 1)..Len(origin) :
                           \A m \in Within(Sibling(q, j)) : n < m

C5_AllValidEmpty ==
    (IsCall /\ AllValid(form)) => returned = Value(<<>>)

\* C6: a call of the collector leaves the tree as it was.
C6_Pure ==
    [][op' = "getFormValidationErrors" => form' = form]_vars

\* C6 witness: a call has walked a tree with nested failures and returned them.
C6_Witness ==
    /\ Returned
    /\ \E n \in 1..Len(origin) : Len(origin[n]) = 2

C8_NeverFails ==
    IsCall =>
        /\ returned.kind = "value"
        /\ returned.value = getFormValidationErrors(NullsEmptied(form)).result

(***************************************************************************)
(* Properties of the profile form (SpecProfile).                           *)
(***************************************************************************)
\* the control registered under a name in a group or array
Named(g, name) == Property(g.controls, name).control

FirstName(f) == Named(f, <<"firstName">>)
LastName(f)  == Named(f, <<"lastName">>)
Address(f)   == Named(f, <<"address">>)
Aliases(f)   == Named(f, <<"aliases">>)

\* C9: updateProfile sets firstName to 'Nancy' and address.street to
\* '123 Drew Street' and leaves the rest of the form model as it was:
\* lastName, address.city, address.state, address.zip, the number and the
\* values of the aliases, and the controls the form and the address have.
C9_UpdateProfileFrame ==
    [][op' = "updateProfile" =>
          /\ FirstName(form').value = "Nancy"
          /\ Named(Address(form'), <<"street">>).value = "123 Drew Street"
          /\ ObjectKeys(form'.controls) = ObjectKeys(form.controls)
          /\ ObjectKeys(Address(form').controls) = ObjectKeys(Address(form).controls)
          /\ LastName(form') = LastName(form)
          /\ \A name \in {<<"city">>, <<"state">>, <<"zip">>} :
                Named(Address(form'), name) = Named(Address(form), name)
          /\ Aliases(form') = Aliases(form)
      ]_vars

\* C9 witness: updateProfile has run on a form whose other fields and second
\* alias the user had filled.
C9_Witness ==
    /\ op = "updateProfile"
    /\ LastName(form).value = "x"
    /\ \A name \in {<<"city">>, <<"state">>, <<"zip">>} :
          Named(Address(form), name).value = "x"
    /\ Len(Aliases(form).controls) = 2
    /\ Aliases(form).controls[2].control.value = "x"

\* C10: the Submit button is disabled exactly while the form is invalid, and
\* once firstName is filled the form is valid and the button enabled.
C10_FirstNameEnablesSubmit ==
    /\ SubmitDisabled <=> invalid(form)
    /\ FirstName(form).value # "" => (valid(form) /\ ~SubmitDisabled)

(***************************************************************************)
(* Termination and the shape of the walk.                                  *)
(***************************************************************************)

\* the walk of the tree in the current state, with its history
Walk == getFormValidationErrors(form)

\* the groups a walk from g is meant to reach: g and the groups nested in it
\* through groups, each as often as it occurs
RECURSIVE ReachableGroups(_)
ReachableGroups(g) ==
    <<g>> \o
    LET RECURSIVE Below(_)
        Below(i) ==
            IF i > Len(g.controls) THEN <<>>
            ELSE (IF g.controls[i].control.kind = "FormGroup"
                  THEN ReachableGroups(g.controls[i].control) ELSE <<>>)
                 \o Below(i + 1)
    IN  Below(1)

\* one visit of each child of each reachable group
ExpectedVisits(g) ==
    LET groups == ReachableGroups(g)
        all    == UNION {{<<n, i>> : i \in 1..Len(groups[n].controls)}
                         : n \in 1..Len(groups)}
    IN  [v \in {[group |-> groups[e[1]], i |-> e[2]] : e \in all} |->
            Cardinality({e \in all : [group |-> groups[e[1]], i |-> e[2]] = v})]

\* the number of groups on the longest chain of nested groups from g
RECURSIVE NestingDepth(_)
NestingDepth(g) ==
    LET RECURSIVE Deepest(_)
        Deepest(i) ==
            IF i > Len(g.controls) THEN 0
            ELSE Max(IF g.controls[i].control.kind = "FormGroup"
                     THEN NestingDepth(g.controls[i].control) ELSE 0,
                     Deepest(i + 1))
    IN  1 + Deepest(1)

\* C11: a call on a (finite, acyclic) tree ends by returning; by then the
\* callback has run exactly once for each child of each reachable group, and
\* no more activations were ever stacked than the tree has levels of groups.
C11_Terminates ==
    IsCall =>
        /\ returned.kind = "value"
        /\ SeqToBag(Walk.visits) = ExpectedVisits(form)
        /\ Walk.depth <= NestingDepth(form)

(***************************************************************************)
(* The collector on the profile form (SpecProfile).                        *)
(***************************************************************************)

\* the record of a missing required value
RequiredRecord(name) == [control |-> name, error |-> "required", value |-> "true"]

\* the record of a required control while it is empty
Missing(c, name) == IF c.value = "" THEN <<RequiredRecord(name)>> ELSE <<>>

\* C12: on the profile form, whatever the user typed and whether or not
\* updateProfile and addAlias ran, a call returns one record
\* {error: 'required', value: true} for each of firstName, lastName and
\* address.city that is empty, in that order, named 'firstName', 'lastName'
\* and 'city', and nothing else: three records on the initial form, none for
\* firstName right after updateProfile.
C12_ProfileErrors ==
    [][IsCall' =>
          /\ returned' = Value(Missing(FirstName(form), <<"firstName">>)
                               \o Missing(LastName(form), <<"lastName">>)
                               \o Missing(Named(Address(form), <<"city">>), <<"city">>))
          /\ op = "constructor" => Len(returned'.value) = 3
          /\ op = "updateProfile" =>
                \A n \in 1..Len(returned'.value) :
                    returned'.value[n].control # <<"firstName">>
      ]_vars

\* C12 witness: a call on a form with two aliases that updateProfile filled,
\* whose lastName and city are empty, returned their two records.
C12_Witness ==
    /\ IsCall
    /\ FirstName(form).value = "Nancy"
    /\ Len(Aliases(form).controls) = 2
    /\ returned = Value(<<RequiredRecord(<<"lastName">>), RequiredRecord(<<"city">>)>>)

(***************************************************************************)
(* What the result depends on.                                             *)
(***************************************************************************)

\* a failure no control below the root carries
RootOnly == Errors(<<[key |-> "rootOnly", value |-> "true"]>>)

\* the tree with another failure mapping on its root
WithRootErrors(g, e) == [g EXCEPT !.errors = e]

\* C13: the outcome of a call is the outcome on the same tree with any other
\* failure mapping on the group passed in (none, an empty one, one or two
\* failures), and no record reports a failure that only the root carries.
C13_RootIndependent ==
    IsCall =>
        \A e \in ErrorMaps \cup GroupErrorMaps \cup {RootOnly} :
            LET other == getFormValidationErrors(WithRootErrors(form, e))
            IN  /\ other.threw <=> returned.kind = "throw"
                /\ ~other.threw => other.result = returned.value
                /\ \A n \in 1..Len(other.result) : other.result[n].error # "rootOnly"

\* C13 witness: a call on a root that carries a failure returned records,
\* one of them the same failure carried by a nested group.
C13_Witness ==
    /\ Returned
    /\ form.errors = Errors(<<Mismatch>>)
    /\ \E n \in 1..Len(returned.value) : returned.value[n].error = Mismatch.key
    /\ \E n \in 1..Len(returned.value) : returned.value[n].error = Required.key

(***************************************************************************)
(* Dynamic lists (SpecList).                                               *)
(***************************************************************************)

\* whether form.get(key) on g passes through a FormArray before the last
\* segment of the key
EntersList(g, key) ==
    \E i \in 1..(Len(key) - 1) :
        LET c == reduce(SubSeq(key, 1, i), 1, [null |-> FALSE, control |-> g])
        IN  ~c.null /\ c.control.kind = "FormArray"

\* whether the control the walk reads after following the child indices q
\* from g lies inside a FormArray
RECURSIVE InsideList(_, _)
InsideList(g, q) ==
    LET key == g.controls[q[1]].key
    IN  \/ EntersList(g, key)
        \/ Len(q) > 1 /\ InsideList(get(g, key).control, Tail(q))

\* C14: a call that returns has run the callback for children of FormGroups
\* only; for a child that is a FormArray it has pushed one record per failure
\* of the array itself, and no record of it is a failure of a control inside
\* a FormArray, however many controls the array holds and whatever failures
\* they carry.
C14_ListsNotEntered ==
    Returned =>
        /\ \A n \in 1..Len(Walk.visits) : Walk.visits[n].group.kind = "FormGroup"
        /\ \A n \in 1..Len(origin) :
              LET q == origin[n]
                  at == VisitedAt(form, q)
              IN  at.control.kind = "FormArray" =>
                      Pick(returned.value, Own(q), 1)
                          = [k \in 1..Len(Entries(at.control.errors)) |->
                                [control |-> at.key,
                                 error   |-> Entries(at.control.errors)[k].key,
                                 value   |-> Entries(at.control.errors)[k].value]]
        /\ \A n \in 1..Len(origin) : ~InsideList(form, origin[n])

(***************************************************************************)
(* addAlias.                                                               *)
(***************************************************************************)

\* the values of the aliases, in order
AliasValues(f) ==
    [i \in 1..Len(Aliases(f).controls) |-> Aliases(f).controls[i].control.value]

\* C15: aliases holds one control on the constructed form, and after any
\* operations one more than the number of addAlias calls; no step makes it
\* shorter; and an addAlias step puts one control with the value '' after
\* the aliases already there, whose values and order it keeps, and leaves
\* firstName, lastName, address and the controls of the form as they were.
C15_AddAliasAppends ==
    /\ [](/\ op = "constructor" => Len(Aliases(form).controls) = 1
          /\ Len(Aliases(form).controls) = 1 + addAliasCalls)
    /\ [][/\ Len(Aliases(form').controls) >= Len(Aliases(form).controls)
          /\ op' = "addAlias" =>
                /\ AliasValues(form') = Append(AliasValues(form), "")
                /\ SubSeq(Aliases(form').controls, 1, Len(Aliases(form).controls))
                       = Aliases(form).controls
                /\ [Aliases(form') EXCEPT !.controls = Aliases(form).controls]
                       = Aliases(form)
                /\ ObjectKeys(form'.controls) = ObjectKeys(form.controls)
                /\ \A name \in {<<"firstName">>, <<"lastName">>, <<"address">>} :
                      Named(form', name) = Named(form, name)
      ]_vars

\* C15 witness: a second addAlias call on a form whose first two aliases and
\* firstName the user had filled.
C15_Witness ==
    /\ op = "addAlias"
    /\ addAliasCalls = 2
    /\ AliasValues(form) = <<"x", "x", "">>
    /\ FirstName(form).value = "x"

(***************************************************************************)
(* The two versions of getFormValidationErrors.                            *)
(***************************************************************************)

\* what the version that only logs does on the form of the current state
Flat == getFormValidationErrorsFlat(form)

\* the (control, error, value) triples of a sequence of its console.log calls
Triples(log) ==
    [n \in 1..Len(log) |-> [control |-> log[n][2], error |-> log[n][4], value |-> log[n][6]]]

\* the positions of the records a call pushed for direct children of the form
Direct == {n \in 1..Len(origin) : Len(origin[n]) = 1}

\* the records the recursive version gave: none when it threw
Records == IF returned.kind = "value" THEN returned.value ELSE <<>>

====
